---- MODULE Spec2Model ----
(***************************************************************************)
(* Versioned denormalization engine of src/index.ts: three audit logs      *)
(* (revAudits, slideAudits, trackAudits) and two snapshot stores           *)
(* (denormalizedSlideAudits, denormalizedRevAudits) in one document store. *)
(*                                                                         *)
(* A document is a record; a field the JavaScript object does not have is  *)
(* a key the record does not have.  Object spread {...a, ...b} is b @@ a.  *)
(* The passthrough fields entity, logTime and blameUser are copied by the  *)
(* code and read nowhere; they are left out of the documents.              *)
(* "doc | null" is a sequence of length 1 or 0.                            *)
(***************************************************************************)
EXTENDS Integers, Sequences, FiniteSets, TLC

VARIABLES
    revAudits,                \* collection 'revAudits', in insertion order
    slideAudits,              \* collection 'slideAudits'
    trackAudits,              \* collection 'trackAudits'
    denormalizedSlideAudits,  \* collection 'denormalizedSlideAudits'
    denormalizedRevAudits,    \* collection 'denormalizedRevAudits'
    nextOid,                  \* the next ObjectId the driver generates
    now,                      \* the clock read by new Date()
    outcome,                  \* the last call: its function, its event, resolved or rejected
    inflight                  \* per caller, the call it awaits in: its position and locals

vars == <<revAudits, slideAudits, trackAudits, denormalizedSlideAudits,
          denormalizedRevAudits, nextOid, now, outcome, inflight>>

-----------------------------------------------------------------------------
(* Bounds *)

\* number of events processed in one behaviour
MaxEvents == 4

-----------------------------------------------------------------------------
(* Values *)

\* previous: null
Null == 0

\* the value of a property the object does not have
Undefined == "undefined"

Get(o, k) == IF k \in DOMAIN o THEN o[k] ELSE Undefined

\* interface Entity<T>: event and object
Event(kind, obj) == [event |-> kind, object |-> obj]

\* events on Revisions; the last one lacks its domain id
RevEvents ==
    { Event("created", [id |-> "R1", status |-> "draft"]),
      Event("updated", [id |-> "R1", status |-> "published"]),
      Event("created", [status |-> "draft"]) }

\* events on Slides; an update carries only some fields; the last one lacks revisionId
SlideEvents ==
    { Event("created", [id |-> "S1", revisionId |-> "R1", position |-> 1, mediaUrl |-> "a"]),
      Event("updated", [id |-> "S1", revisionId |-> "R1", mediaUrl |-> "b"]),
      Event("deleted", [id |-> "S1", revisionId |-> "R1"]),
      Event("created", [id |-> "S2", revisionId |-> "R1", position |-> 2, mediaUrl |-> "a"]),
      Event("created", [id |-> "S1", position |-> 1, mediaUrl |-> "a"]) }

\* events on Tracks; the last one lacks slideId
TrackEvents ==
    { Event("created", [id |-> "T1", slideId |-> "S1", seconds |-> 6, questions |-> <<"q1">>]),
      Event("updated", [id |-> "T1", slideId |-> "S1", questions |-> <<"q2">>]),
      Event("deleted", [id |-> "T1", slideId |-> "S1"]),
      Event("created", [id |-> "T2", slideId |-> "S1", seconds |-> 9, questions |-> <<>>]),
      Event("created", [id |-> "T2", slideId |-> "S2", seconds |-> 9, questions |-> <<>>]),
      Event("created", [id |-> "T1", seconds |-> 6, questions |-> <<"q1">>]) }

\* how far the clock advances between two calls
Tick == {1}

-----------------------------------------------------------------------------
(* The document store and deepmerge *)

\* fields whose values are objects, and fields whose values are arrays
RecordFields == {"object"}
ArrayFields == {"questions", "tracks"}

\* deepmerge-ts: records merge key by key, recursively; arrays are
\* concatenated; for any other value the last one wins
RECURSIVE deepmerge(_, _)
deepmerge(x, y) ==
    [k \in DOMAIN x \cup DOMAIN y |->
        IF k \in DOMAIN x /\ k \in DOMAIN y
        THEN IF k \in RecordFields THEN deepmerge(x[k], y[k])
             ELSE IF k \in ArrayFields THEN x[k] \o y[k]
             ELSE y[k]
        ELSE IF k \in DOMAIN y THEN y[k] ELSE x[k]]

\* col.insertOne(doc)
insertOne(col, doc) == Append(col, doc)

Matching(col, id) == {i \in DOMAIN col : Get(col[i].object, "id") = id}

\* findOneLatest with the sort ascending: the oldest match
findOneOldest(col, id) ==
    IF Matching(col, id) = {} THEN {<<>>}
    ELSE {<<col[i]>> : i \in {j \in Matching(col, id) :
                \A m \in Matching(col, id) : col[j]._createdAt <= col[m]._createdAt}}

\* col.findOne({'object.id': id}, {sort: {_createdAt: -1}}): the documents
\* the query may return, each as <<doc>>; <<>> when none matches
findOneLatest(col, id) ==
    IF Matching(col, id) = {} THEN {<<>>}
    ELSE {<<col[i]>> : i \in {j \in Matching(col, id) :
                \A m \in Matching(col, id) : col[m]._createdAt <= col[j]._createdAt}}

\* col.findOne({'object.id': id}) without a sort: the first match in natural order
findOneFirst(col, id) ==
    IF Matching(col, id) = {} THEN <<>>
    ELSE <<col[CHOOSE i \in Matching(col, id) : \A m \in Matching(col, id) : i <= m]>>

\* s.tracks || []
TracksOf(s) == IF "tracks" \in DOMAIN s THEN s.tracks ELSE <<>>

SameId(a, b) == Get(a.object, "id") = Get(b.object, "id")

-----------------------------------------------------------------------------
(* insertDenormalizedSlide *)

\* nextSlide with previous set to the new version's own id
nextSlideSelfLink(prev, item, newId, t) ==
    IF prev = <<>>
    THEN [previous |-> Null, tracks |-> <<>>, _id |-> newId, _createdAt |-> t] @@ item
    ELSE [previous |-> newId, event |-> "updated", _id |-> newId, _createdAt |-> t]
            @@ item @@ prev[1]

\* the new Slide snapshot before the Track event is folded in
nextSlide(prev, item, newId, t) ==
    IF prev = <<>>
    THEN [previous |-> Null, tracks |-> <<>>, _id |-> newId, _createdAt |-> t] @@ item
    ELSE [previous |-> prev[1]._id, event |-> "updated", _id |-> newId, _createdAt |-> t]
            @@ item @@ prev[1]

\* foldTrackIntoSlide with a created Track put first instead of last
foldTrackIntoSlidePrepend(next, children) ==
    IF children = <<>> THEN next
    ELSE LET c == children[1]
             ts == TracksOf(next)
         IN  CASE c.event = "created" ->
                    ("tracks" :> (<<c>> \o ts)) @@ next
               [] c.event = "updated" ->
                    ("tracks" :> [i \in DOMAIN ts |->
                        IF SameId(ts[i], c) THEN deepmerge(ts[i], c) ELSE ts[i]]) @@ next
               [] c.event = "deleted" ->
                    ("tracks" :> SelectSeq(ts, LAMBDA s : ~SameId(s, c))) @@ next
               [] OTHER -> next

\* if (children) { ... }: the Track event folded into nextSlide.tracks
foldTrackIntoSlide(next, children) ==
    IF children = <<>> THEN next
    ELSE LET c == children[1]
             ts == TracksOf(next)
         IN  CASE c.event = "created" ->
                    ("tracks" :> Append(ts, c)) @@ next
               [] c.event = "updated" ->
                    ("tracks" :> [i \in DOMAIN ts |->
                        IF SameId(ts[i], c) THEN deepmerge(ts[i], c) ELSE ts[i]]) @@ next
               [] c.event = "deleted" ->
                    ("tracks" :> SelectSeq(ts, LAMBDA s : ~SameId(s, c))) @@ next
               [] OTHER -> next

\* insertDenormalizedSlide without the final insertOne
insertDenormalizedSlideUnsaved(col, item, children, newId, t) == {col}

\* the collections the call may leave: one per baseline the query may return
insertDenormalizedSlide(col, item, children, newId, t) ==
    { insertOne(col, foldTrackIntoSlide(nextSlide(prev, item, newId, t), children)) :
        prev \in findOneLatest(col, Get(item.object, "id")) }

-----------------------------------------------------------------------------
(* insertDenormalized *)

\* the new Revision snapshot before the child event is folded in
nextRev(prev, item, newId, t) ==
    IF prev = <<>>
    THEN [previous |-> Null, slides |-> <<>>, _id |-> newId, _createdAt |-> t] @@ item
    ELSE [previous |-> prev[1]._id, event |-> "updated", _id |-> newId, _createdAt |-> t]
            @@ item @@ prev[1]

\* foldSlide with a 'created' event appended twice
foldSlideTwice(slides, item) ==
    CASE item.event = "created" -> Append(Append(slides, item), item)
      [] item.event = "updated" ->
            [i \in DOMAIN slides |->
                IF SameId(slides[i], item) THEN deepmerge(slides[i], item) ELSE slides[i]]
      [] item.event = "deleted" -> SelectSeq(slides, LAMBDA s : ~SameId(s, item))
      [] OTHER -> slides

\* type === 'slide': the Slide event folded into nextRev.slides
foldSlide(slides, item) ==
    CASE item.event = "created" -> Append(slides, item)
      [] item.event = "updated" ->
            [i \in DOMAIN slides |->
                IF SameId(slides[i], item) THEN deepmerge(slides[i], item) ELSE slides[i]]
      [] item.event = "deleted" -> SelectSeq(slides, LAMBDA s : ~SameId(s, item))
      [] OTHER -> slides

\* foldTrack with a 'deleted' event that removes nothing
foldTrackKeepDeleted(ts, item) ==
    CASE item.event = "created" -> Append(ts, item)
      [] item.event = "updated" ->
            [i \in DOMAIN ts |->
                IF SameId(ts[i], item) THEN deepmerge(ts[i], item) ELSE ts[i]]
      [] item.event = "deleted" -> ts

\* the tracks of one embedded Slide after the Track event
foldTrack(ts, item) ==
    CASE item.event = "created" -> Append(ts, item)
      [] item.event = "updated" ->
            [i \in DOMAIN ts |->
                IF SameId(ts[i], item) THEN deepmerge(ts[i], item) ELSE ts[i]]
      [] item.event = "deleted" -> SelectSeq(ts, LAMBDA t : ~SameId(t, item))

\* foldTrackIntoSlides without the test on the Track's slideId
foldTrackIntoSlidesAll(slides, item) ==
    IF item.event \notin {"created", "updated", "deleted"} THEN slides
    ELSE [i \in DOMAIN slides |->
            ("tracks" :> foldTrack(TracksOf(slides[i]), item)) @@ slides[i]]

\* type === 'track': the Track event folded into the embedded Slides whose
\* id is the Track's slideId
foldTrackIntoSlides(slides, item) ==
    IF item.event \notin {"created", "updated", "deleted"} THEN slides
    ELSE [i \in DOMAIN slides |->
            IF Get(slides[i].object, "id") = Get(item.object, "slideId")
            THEN ("tracks" :> foldTrack(TracksOf(slides[i]), item)) @@ slides[i]
            ELSE slides[i]]

\* if (children) { ... }
foldChildren(next, children) ==
    IF children = <<>> THEN next
    ELSE IF children[1].type = "slide"
         THEN ("slides" :> foldSlide(next.slides, children[1].item)) @@ next
         ELSE ("slides" :> foldTrackIntoSlides(next.slides, children[1].item)) @@ next

\* insertDenormalized without the final insertOne
insertDenormalizedUnsaved(col, item, children, newId, t) == {col}

\* insertDenormalized on a store that hands out its own objects instead of
\* copies: the fold's s.tracks = ... and nextRev.slides reach the baseline
insertDenormalizedAliased(col, item, children, newId, t) ==
    { LET new == foldChildren(nextRev(prev, item, newId, t), children)
      IN  insertOne([i \in DOMAIN col |->
                        IF prev # <<>> /\ col[i]._id = prev[1]._id
                        THEN ("slides" :> new.slides) @@ col[i]
                        ELSE col[i]], new) :
        prev \in findOneLatest(col, Get(item.object, "id")) }

\* the collections the call may leave: one per baseline the query may return
insertDenormalized(col, item, children, newId, t) ==
    { insertOne(col, foldChildren(nextRev(prev, item, newId, t), children)) :
        prev \in findOneLatest(col, Get(item.object, "id")) }

-----------------------------------------------------------------------------
(* The state machine *)

Processed == Len(revAudits) + Len(slideAudits) + Len(trackAudits)

Call(op, e, result) == [op |-> op, event |-> e, result |-> result]

\* the callers that may have a call in flight at the same time
Callers == {"a", "b"}

\* a caller with no call in flight
Idle ==
    [op |-> "none", event |-> Event("none", [id |-> "none"]), pc |-> "idle",
     slide |-> <<>>, rev |-> <<>>, inserted |-> <<>>, doc |-> <<>>]

Init ==
    /\ revAudits = <<>>
    /\ slideAudits = <<>>
    /\ trackAudits = <<>>
    /\ denormalizedSlideAudits = <<>>
    /\ denormalizedRevAudits = <<>>
    /\ nextOid = 1
    /\ now = 1
    /\ outcome = Call("none", Event("none", [id |-> "none"]), "resolved")
    /\ inflight = [c \in Callers |-> Idle]

InsertRev(rev, dt) ==
    /\ Processed < MaxEvents
    /\ revAudits' = insertOne(revAudits, [_id |-> nextOid, _createdAt |-> now] @@ rev)
    /\ \E col \in insertDenormalized(denormalizedRevAudits, [_id |-> nextOid] @@ rev,
                                      <<>>, nextOid + 1, now) :
            denormalizedRevAudits' = col
    /\ nextOid' = nextOid + 2
    /\ now' = now + dt
    /\ outcome' = Call("insertRev", rev, "resolved")
    /\ UNCHANGED <<slideAudits, trackAudits, denormalizedSlideAudits, inflight>>

InsertSlide(slide, dt) ==
    /\ Processed < MaxEvents
    /\ \E rev \in findOneLatest(revAudits, Get(slide.object, "revisionId")) :
        LET newSlide == [_createdAt |-> now] @@ slide
            inserted == [_id |-> nextOid] @@ newSlide
        IN  /\ slideAudits' = insertOne(slideAudits, inserted)
            /\ \E col \in insertDenormalizedSlide(denormalizedSlideAudits, inserted,
                                                  <<>>, nextOid + 1, now) :
                    denormalizedSlideAudits' = col
            /\ IF rev = <<>>
               THEN \* insertDenormalized reads item.object of null and throws
                    /\ UNCHANGED denormalizedRevAudits
                    /\ nextOid' = nextOid + 2
                    /\ outcome' = Call("insertSlide", slide, "rejected")
               ELSE /\ \E col \in insertDenormalized(denormalizedRevAudits, rev[1],
                                        <<[type |-> "slide", item |-> inserted]>>,
                                        nextOid + 2, now) :
                            denormalizedRevAudits' = col
                    /\ nextOid' = nextOid + 3
                    /\ outcome' = Call("insertSlide", slide, "resolved")
    /\ now' = now + dt
    /\ UNCHANGED <<revAudits, trackAudits, inflight>>

InsertTrack(track, dt) ==
    /\ Processed < MaxEvents
    /\ \E slide \in findOneLatest(slideAudits, Get(track.object, "slideId")) :
        LET rev == findOneFirst(revAudits,
                        IF slide = <<>> THEN Undefined
                        ELSE Get(slide[1].object, "revisionId"))
            newTrack == [_createdAt |-> now] @@ track
            inserted == [_id |-> nextOid] @@ newTrack
        IN  /\ trackAudits' = insertOne(trackAudits, inserted)
            /\ IF slide = <<>>
               THEN \* insertDenormalizedSlide reads item.object of null and throws
                    /\ UNCHANGED <<denormalizedSlideAudits, denormalizedRevAudits>>
                    /\ nextOid' = nextOid + 1
                    /\ outcome' = Call("insertTrack", track, "rejected")
               ELSE /\ \E col \in insertDenormalizedSlide(denormalizedSlideAudits,
                                        slide[1], <<inserted>>, nextOid + 1, now) :
                            denormalizedSlideAudits' = col
                    /\ IF rev = <<>>
                       THEN \* insertDenormalized reads item.object of null and throws
                            /\ UNCHANGED denormalizedRevAudits
                            /\ nextOid' = nextOid + 2
                            /\ outcome' = Call("insertTrack", track, "rejected")
                       ELSE /\ \E col \in insertDenormalized(denormalizedRevAudits, rev[1],
                                            <<[type |-> "track", item |-> inserted]>>,
                                            nextOid + 2, now) :
                                    denormalizedRevAudits' = col
                            /\ nextOid' = nextOid + 3
                            /\ outcome' = Call("insertTrack", track, "resolved")
    /\ now' = now + dt
    /\ UNCHANGED <<revAudits, slideAudits, inflight>>

Next ==
    \/ \E rev \in RevEvents, dt \in Tick : InsertRev(rev, dt)
    \/ \E slide \in SlideEvents, dt \in Tick : InsertSlide(slide, dt)
    \/ \E track \in TrackEvents, dt \in Tick : InsertTrack(track, dt)

Spec == Init /\ [][Next]_vars


-----------------------------------------------------------------------------
(* Reading the stores *)

Range(f) == {f[i] : i \in DOMAIN f}

\* the domain ids that have a snapshot in a store
IdsIn(col) == {Get(d.object, "id") : d \in Range(col)}

\* the latest snapshots of a domain id, as the resolver returns them
LatestIn(col, id) == {p[1] : p \in findOneLatest(col, id) \ {<<>>}}

ObjectsOf(docs) == [i \in DOMAIN docs |-> docs[i].object]

IdsOf(docs) == [i \in DOMAIN docs |-> Get(docs[i].object, "id")]

\* the event lacks its domain id or its parent reference
Malformed(op, e) ==
    \/ "id" \notin DOMAIN e.object
    \/ op = "insertSlide" /\ "revisionId" \notin DOMAIN e.object
    \/ op = "insertTrack" /\ "slideId" \notin DOMAIN e.object

\* every recorded event has its domain id and its parent reference, every
\* recorded Slide event found its Revision recorded, and every recorded Track
\* event found its Slide recorded
AllEventsValid ==
    /\ \A a \in Range(revAudits) : ~Malformed("insertRev", a)
    /\ \A a \in Range(slideAudits) :
            /\ ~Malformed("insertSlide", a)
            /\ \E i \in Matching(revAudits, Get(a.object, "revisionId")) :
                    revAudits[i]._id < a._id
    /\ \A a \in Range(trackAudits) :
            /\ ~Malformed("insertTrack", a)
            /\ \E i \in Matching(slideAudits, Get(a.object, "slideId")) :
                    slideAudits[i]._id < a._id

\* the Track events that insertTrack folded into Slide s: those with this
\* slideId that arrived when a Slide event for s had been recorded
FoldedInto(s) ==
    SelectSeq(trackAudits, LAMBDA a :
        /\ Get(a.object, "slideId") = s
        /\ \E i \in Matching(slideAudits, s) : slideAudits[i]._id < a._id)

\* the 'created' event at i is not followed by a 'deleted' event of its Track
Survives(F, i) ==
    /\ F[i].event = "created"
    /\ \A j \in (i + 1)..Len(F) : ~(F[j].event = "deleted" /\ SameId(F[j], F[i]))

\* doc merged with the 'updated' events of its Track from position j on
RECURSIVE MergedFrom(_, _, _)
MergedFrom(F, doc, j) ==
    IF j > Len(F) THEN doc
    ELSE MergedFrom(F, IF F[j].event = "updated" /\ SameId(F[j], doc)
                       THEN deepmerge(doc, F[j]) ELSE doc, j + 1)

\* one entry per surviving 'created' event, in event order
RECURSIVE PerCreate(_, _)
PerCreate(F, i) ==
    IF i > Len(F) THEN <<>>
    ELSE (IF Survives(F, i) THEN <<MergedFrom(F, F[i], i + 1)>> ELSE <<>>)
            \o PerCreate(F, i + 1)

\* one entry per Track id that has a surviving 'created' event, in creation order
RECURSIVE PerTrackId(_, _)
PerTrackId(F, i) ==
    IF i > Len(F) THEN <<>>
    ELSE (IF Survives(F, i) /\ ~\E j \in 1..(i - 1) : Survives(F, j) /\ SameId(F[j], F[i])
          THEN <<MergedFrom(F, F[i], i + 1)>> ELSE <<>>)
            \o PerTrackId(F, i + 1)

-----------------------------------------------------------------------------
(* Fold correctness *)

-----------------------------------------------------------------------------
(* The two stores *)

\* C2: for every Slide embedded in the latest snapshot of its Revision, the
\* Track ids of the embedded entry are the Track ids of the latest Slide
\* snapshot of that Slide.
C2_StoresAgree ==
    AllEventsValid =>
        \A r \in IdsIn(denormalizedRevAudits) :
            \A rv \in LatestIn(denormalizedRevAudits, r) :
                \A i \in DOMAIN rv.slides :
                    Get(rv.slides[i].object, "revisionId") = r =>
                        \A p \in LatestIn(denormalizedSlideAudits,
                                          Get(rv.slides[i].object, "id")) :
                            IdsOf(TracksOf(rv.slides[i])) = IdsOf(p.tracks)

-----------------------------------------------------------------------------
(* Merge on update *)

\* the entries of after are those of before, in the same places, and an entry
\* with the id of event e has e's value in every field of e's payload and its
\* prior value in every other field
MergedInPlace(before, after, e) ==
    /\ Len(after) = Len(before)
    /\ \A i \in DOMAIN before :
        IF SameId(before[i], e)
        THEN /\ DOMAIN after[i].object = DOMAIN before[i].object \cup DOMAIN e.object
             /\ \A k \in DOMAIN e.object : after[i].object[k] = e.object[k]
             /\ \A k \in DOMAIN before[i].object \ DOMAIN e.object :
                    after[i].object[k] = before[i].object[k]
        ELSE after[i] = before[i]

\* the snapshot just written to a store, and the snapshots it names as previous
Written(col) == col[Len(col)]
BaselineOf(col, doc) == {d \in Range(col) : d._id = doc.previous}

\* C3: folding an 'updated' event merges the entry with the same domain id in
\* place: every field of the incoming payload, arrays included, takes the
\* incoming value, every other field keeps its value, every entry its place.
C3_UpdateTakesIncoming ==
    [][ AllEventsValid' =>
        /\ (/\ outcome'.op = "insertSlide"
            /\ outcome'.event.event = "updated"
            /\ Len(denormalizedRevAudits') = Len(denormalizedRevAudits) + 1)
            => \A old \in BaselineOf(denormalizedRevAudits, Written(denormalizedRevAudits')) :
                    MergedInPlace(old.slides, Written(denormalizedRevAudits').slides,
                                  outcome'.event)
        /\ (/\ outcome'.op = "insertTrack"
            /\ outcome'.event.event = "updated"
            /\ Len(denormalizedSlideAudits') = Len(denormalizedSlideAudits) + 1)
            => \A old \in BaselineOf(denormalizedSlideAudits, Written(denormalizedSlideAudits')) :
                    MergedInPlace(old.tracks, Written(denormalizedSlideAudits').tracks,
                                  outcome'.event)
        /\ (/\ outcome'.op = "insertTrack"
            /\ outcome'.event.event = "updated"
            /\ Len(denormalizedRevAudits') = Len(denormalizedRevAudits) + 1)
            => \A old \in BaselineOf(denormalizedRevAudits, Written(denormalizedRevAudits')) :
                    \A i \in DOMAIN old.slides :
                        Get(old.slides[i].object, "id") = Get(outcome'.event.object, "slideId")
                            => MergedInPlace(TracksOf(old.slides[i]),
                                    TracksOf(Written(denormalizedRevAudits').slides[i]),
                                    outcome'.event)
      ]_vars

-----------------------------------------------------------------------------
(* Version chains *)

Stores == {denormalizedSlideAudits, denormalizedRevAudits}

\* following previous from the snapshot with this _id visits no snapshot
\* twice and reaches a snapshot whose previous is null
RECURSIVE EndsAtNull(_, _, _)
EndsAtNull(col, oid, visited) ==
    /\ oid \notin visited
    /\ \E d \in Range(col) :
        /\ d._id = oid
        /\ \/ d.previous = Null
           \/ EndsAtNull(col, d.previous, visited \cup {oid})

\* C4: from the latest snapshot of every domain id in either store, following
\* previous never visits a snapshot twice and ends at previous = null.
C4_ChainEndsAtNull ==
    \A col \in Stores :
        \A id \in IdsIn(col) :
            \A p \in LatestIn(col, id) : EndsAtNull(col, p._id, {})

\* a chain of at least three versions
C4_Witness ==
    \E col \in Stores :
        \E id \in IdsIn(col) :
            \E p \in LatestIn(col, id) :
                \E q \in BaselineOf(col, p) : q.previous # Null

-----------------------------------------------------------------------------
(* One call *)

\* the parents of event e exist when function op is called with it: the
\* Revision of a Slide event; the Slide of a Track event and the Revision that
\* the latest record of that Slide names
ParentsExist(op, e) ==
    CASE op = "insertRev" -> TRUE
      [] op = "insertSlide" -> Matching(revAudits, Get(e.object, "revisionId")) # {}
      [] op = "insertTrack" ->
            /\ Matching(slideAudits, Get(e.object, "slideId")) # {}
            /\ \A s \in LatestIn(slideAudits, Get(e.object, "slideId")) :
                    Matching(revAudits, Get(s.object, "revisionId")) # {}
      [] OTHER -> FALSE

\* col grows by exactly n documents and keeps the ones it has
Grows(col, colNext, n) ==
    /\ Len(colNext) = Len(col) + n
    /\ SubSeq(colNext, 1, Len(col)) = col

\* C6: an event whose parents exist persists exactly one new snapshot in the
\* Revision snapshot store, and a Track event exactly one new snapshot in the
\* Slide snapshot store.
C6_OneSnapshotPerStore ==
    [][ ParentsExist(outcome'.op, outcome'.event) =>
            /\ Grows(denormalizedRevAudits, denormalizedRevAudits', 1)
            /\ outcome'.op = "insertTrack" =>
                    Grows(denormalizedSlideAudits, denormalizedSlideAudits', 1)
      ]_vars

\* a Track event whose parents existed has been processed
C6_Witness ==
    /\ outcome.op = "insertTrack"
    /\ outcome.result = "resolved"
    /\ Len(denormalizedRevAudits) >= 3

C8_AllOrNothing ==
    [][ /\ outcome'.result = "rejected" =>
                UNCHANGED <<denormalizedSlideAudits, denormalizedRevAudits>>
        /\ denormalizedSlideAudits' # denormalizedSlideAudits =>
                denormalizedRevAudits' # denormalizedRevAudits
      ]_vars

\* C9: an event that lacks its domain id or its parent reference is rejected
\* before any audit log append: the three audit logs are unchanged.
C9_MalformedNotLogged ==
    [][ Malformed(outcome'.op, outcome'.event) =>
            UNCHANGED <<revAudits, slideAudits, trackAudits>>
      ]_vars

\* C10: every snapshot records 'created' when its previous is null and
\* 'updated' otherwise.
C10_EventKind ==
    \A col \in Stores :
        \A d \in Range(col) :
            d.event = (IF d.previous = Null THEN "created" ELSE "updated")

-----------------------------------------------------------------------------
(* Immutability *)

\* colNext holds every document of col, unchanged and in its place
Kept(col, colNext) ==
    /\ Len(colNext) >= Len(col)
    /\ SubSeq(colNext, 1, Len(col)) = col

\* C11: every call only adds documents to the five collections: every audit
\* record and every snapshot stays, with the content it was persisted with
\* (its embedded children and its previous included).
C11_AppendOnly ==
    [][ /\ Kept(revAudits, revAudits')
        /\ Kept(slideAudits, slideAudits')
        /\ Kept(trackAudits, trackAudits')
        /\ Kept(denormalizedSlideAudits, denormalizedSlideAudits')
        /\ Kept(denormalizedRevAudits, denormalizedRevAudits')
      ]_vars

\* a Track event has been folded into an embedded Slide that the baseline
\* Revision snapshot holds too
C11_Witness ==
    /\ outcome.op = "insertTrack"
    /\ outcome.result = "resolved"
    /\ \E old \in BaselineOf(denormalizedRevAudits, Written(denormalizedRevAudits)) :
            /\ old.slides # <<>>
            /\ old.slides # Written(denormalizedRevAudits).slides

-----------------------------------------------------------------------------
(* The Revision's own payload under Slide and Track events *)

\* C16: the Revision snapshot that insertSlide or insertTrack writes has the
\* payload of the Revision snapshot it follows, which is the payload of the
\* most recent Revision event of that Revision.
C16_RevPayloadKept ==
    [][ (/\ AllEventsValid'
         /\ outcome'.op \in {"insertSlide", "insertTrack"}
         /\ Len(denormalizedRevAudits') = Len(denormalizedRevAudits) + 1)
        => LET new == Written(denormalizedRevAudits')
           IN  /\ \A old \in BaselineOf(denormalizedRevAudits, new) :
                    new.object = old.object
               /\ \A a \in LatestIn(revAudits, Get(new.object, "id")) :
                    new.object = a.object
      ]_vars

-----------------------------------------------------------------------------
(* A Track event folded into a Revision snapshot *)

\* the document without its tracks
WithoutTracks(s) == [k \in DOMAIN s \ {"tracks"} |-> s[k]]

\* the embedded Slides after are those before, one for one and in the same
\* order; only the tracks of the Slides with this id may differ
OnlyTracksOf(before, after, slideId) ==
    /\ Len(after) = Len(before)
    /\ \A i \in DOMAIN before :
        IF Get(before[i].object, "id") = slideId
        THEN WithoutTracks(after[i]) = WithoutTracks(before[i])
        ELSE after[i] = before[i]

\* C17: the Revision snapshot insertTrack writes has the embedded Slides of
\* the snapshot it follows, in number, order and payload; only the tracks of
\* the Slide named by the Track's slideId may differ, and when no embedded
\* Slide has that id the slides are the same while the store still grew.
C17_TrackFoldFrame ==
    [][ (/\ outcome'.op = "insertTrack"
         /\ Len(denormalizedRevAudits') = Len(denormalizedRevAudits) + 1)
        => LET new == Written(denormalizedRevAudits')
               sid == Get(outcome'.event.object, "slideId")
           IN  \A old \in BaselineOf(denormalizedRevAudits, new) :
                /\ OnlyTracksOf(old.slides, new.slides, sid)
                /\ (\A i \in DOMAIN old.slides : Get(old.slides[i].object, "id") # sid)
                        => new.slides = old.slides
      ]_vars

\* a Track event has changed the tracks of one of two embedded Slides
C17_Witness ==
    /\ outcome.op = "insertTrack"
    /\ outcome.result = "resolved"
    /\ \E old \in BaselineOf(denormalizedRevAudits, Written(denormalizedRevAudits)) :
        /\ Len(old.slides) = 2
        /\ \E i, j \in DOMAIN old.slides :
            /\ Get(old.slides[i].object, "id") = Get(outcome.event.object, "slideId")
            /\ Get(old.slides[j].object, "id") # Get(outcome.event.object, "slideId")
            /\ Written(denormalizedRevAudits).slides[i] # old.slides[i]

-----------------------------------------------------------------------------
(* Create followed by delete *)

\* the documents of col with this _id
ById(col, oid) == {d \in Range(col) : d._id = oid}

\* no entry of ts has the domain id of event e
Absent(ts, e) == \A i \in DOMAIN ts : ~SameId(ts[i], e)

\* the last two calls were insertTrack of a 'created' event and insertTrack of
\* a 'deleted' event for the same Track of the same Slide, both resolved
CreatedThenDeleted ==
    /\ Len(trackAudits) >= 2
    /\ LET c == trackAudits[Len(trackAudits) - 1]
           d == trackAudits[Len(trackAudits)]
       IN  /\ c.event = "created"
           /\ d.event = "deleted"
           /\ SameId(c, d)
           /\ "slideId" \in DOMAIN c.object
           /\ Get(c.object, "slideId") = Get(d.object, "slideId")
           /\ d._id = c._id + 3
           /\ nextOid = d._id + 3
           /\ outcome.op = "insertTrack"
           /\ outcome.result = "resolved"

-----------------------------------------------------------------------------
(* The payload of a Slide snapshot after a partial update *)

\* C19: after insertSlide of an 'updated' event, the payload of the Slide
\* snapshot just written has the event's value in every field the event names
\* and the earlier value in every other field, and it is the payload of that
\* Slide's entries in the Revision snapshot just written.
C19_SlidePayloadMerged ==
    [][ (/\ AllEventsValid'
         /\ outcome'.op = "insertSlide"
         /\ outcome'.event.event = "updated"
         /\ outcome'.result = "resolved")
        => LET new == Written(denormalizedSlideAudits')
               rev == Written(denormalizedRevAudits')
           IN  /\ \A k \in DOMAIN outcome'.event.object :
                    /\ k \in DOMAIN new.object
                    /\ new.object[k] = outcome'.event.object[k]
               /\ \A old \in BaselineOf(denormalizedSlideAudits, new) :
                    \A k \in DOMAIN old.object \ DOMAIN outcome'.event.object :
                        /\ k \in DOMAIN new.object
                        /\ new.object[k] = old.object[k]
               /\ \A i \in DOMAIN rev.slides :
                    SameId(rev.slides[i], new) => rev.slides[i].object = new.object
      ]_vars

-----------------------------------------------------------------------------
(* Entries per child in an embedded collection *)

\* the places of docs that hold the domain id of e
PlacesOf(docs, e) == {i \in DOMAIN docs : SameId(docs[i], e)}

\* the 'created' events recorded in col for the domain id of e
CreatesOf(col, e) == {i \in DOMAIN col : col[i].event = "created" /\ SameId(col[i], e)}

\* docs has at most one entry per domain id
OnePerId(docs) == \A i, j \in DOMAIN docs : SameId(docs[i], docs[j]) => i = j

\* docs has no more entries of a child than col records 'created' events for it
OnePerCreate(docs, col) ==
    \A i \in DOMAIN docs :
        Cardinality(PlacesOf(docs, docs[i])) <= Cardinality(CreatesOf(col, docs[i]))

\* C20 as claimed: in every persisted snapshot no two embedded Slides have the
\* same Slide id and no two tracks of a Slide have the same Track id.
C20_OneEntryPerId ==
    /\ \A d \in Range(denormalizedSlideAudits) : OnePerId(d.tracks)
    /\ \A d \in Range(denormalizedRevAudits) :
        /\ OnePerId(d.slides)
        /\ \A i \in DOMAIN d.slides : OnePerId(TracksOf(d.slides[i]))

\* C20: in every persisted snapshot an embedded collection holds no more
\* entries of a child id than 'created' events were recorded for that child,
\* so a child created once has at most one entry.
C20_OneEntryPerCreate ==
    /\ \A d \in Range(denormalizedSlideAudits) : OnePerCreate(d.tracks, trackAudits)
    /\ \A d \in Range(denormalizedRevAudits) :
        /\ OnePerCreate(d.slides, slideAudits)
        /\ \A i \in DOMAIN d.slides : OnePerCreate(TracksOf(d.slides[i]), trackAudits)

\* a Slide created twice has two entries in a Revision snapshot, and a Slide
\* created once has one
C20_Witness ==
    \E d \in Range(denormalizedRevAudits) :
        \E i, j \in DOMAIN d.slides :
            /\ Cardinality(PlacesOf(d.slides, d.slides[i])) = 2
            /\ Cardinality(CreatesOf(slideAudits, d.slides[i])) = 2
            /\ Cardinality(PlacesOf(d.slides, d.slides[j])) = 1
            /\ Cardinality(CreatesOf(slideAudits, d.slides[j])) = 1

-----------------------------------------------------------------------------
(* The projected views *)

\* the document without these fields
Without(doc, keys) == [k \in DOMAIN doc \ keys |-> doc[k]]

\* the fields $project removes from a snapshot, and from an embedded Track
Hidden == {"id", "createdAt", "_createdAt", "logTime", "entity", "ipAddress", "userAgent"}
TrackHidden == Hidden \cup {"setting", "tags"}

\* $project on tracks
projectTracks(ts) == [i \in DOMAIN ts |-> Without(ts[i], TrackHidden)]

\* $project on slides: the embedded Slide and, where it has them, its tracks
projectSlides(ss) ==
    [i \in DOMAIN ss |->
        IF "tracks" \in DOMAIN ss[i]
        THEN ("tracks" :> projectTracks(ss[i].tracks)) @@ Without(ss[i], Hidden)
        ELSE Without(ss[i], Hidden)]

\* the aggregation over denormalizedSlideAudits for one snapshot: $lookup of
\* previous, $project, and previous[0]; a snapshot without an ancestor has no
\* previous
aggregateSlide(col, doc) ==
    LET top == ("tracks" :> projectTracks(doc.tracks)) @@ Without(doc, Hidden \cup {"previous"})
        found == BaselineOf(col, doc)
    IN  IF found = {} THEN top
        ELSE LET p == CHOOSE d \in found : TRUE
             IN  ("previous" :> (("tracks" :> projectTracks(p.tracks))
                                    @@ Without(p, Hidden \cup {"previous"}))) @@ top

\* the aggregation over denormalizedRevAudits for one snapshot
aggregateRev(col, doc) ==
    LET top == ("slides" :> projectSlides(doc.slides)) @@ Without(doc, Hidden \cup {"previous"})
        found == BaselineOf(col, doc)
    IN  IF found = {} THEN top
        ELSE LET p == CHOOSE d \in found : TRUE
             IN  ("previous" :> (("slides" :> projectSlides(p.slides))
                                    @@ Without(p, Hidden \cup {"previous"}))) @@ top

\* function transformSlide
transformSlide(data) == ("lessonSlide" :> data.object) @@ Without(data, {"object"})

\* function transformTrack
transformTrack(data) == data.object

\* transformSlide2 that descends at every depth and keeps the ancestor's
\* whole view
RECURSIVE transformSlide2Whole(_, _)
transformSlide2Whole(data, depth) ==
    LET dt == ("lessonSlide" :>
                    (("tracks" :> [i \in DOMAIN data.tracks |-> transformTrack(data.tracks[i])])
                        @@ data.object))
                @@ Without(data, {"tracks", "object", "previous"})
    IN  IF "previous" \in DOMAIN data
        THEN ("previous" :> transformSlide2Whole(data.previous, depth + 1)) @@ dt
        ELSE dt

\* function transformSlide2
RECURSIVE transformSlide2(_, _)
transformSlide2(data, depth) ==
    LET dt == ("lessonSlide" :>
                    (("tracks" :> [i \in DOMAIN data.tracks |-> transformTrack(data.tracks[i])])
                        @@ data.object))
                @@ Without(data, {"tracks", "object", "previous"})
    IN  IF depth = 0 /\ "previous" \in DOMAIN data
        THEN ("previous" :> transformSlide2(data.previous, depth + 1).lessonSlide) @@ dt
        ELSE dt

\* the lessonRevision object: the version is the three parts joined by dots,
\* a missing part reading "undefined"
lessonRevisionOf(data) ==
    [version |-> <<Get(data.object, "major"), Get(data.object, "minor"), Get(data.object, "patch")>>,
     status |-> Get(data.object, "status"),
     id |-> Get(data.object, "id"),
     createdAt |-> Get(data.object, "createdAt"),
     slides |-> [i \in DOMAIN data.slides |-> transformSlide(data.slides[i])]]

\* transformRev that leaves the ancestor's whole view under previous
RECURSIVE transformRevWrapped(_, _)
transformRevWrapped(data, depth) ==
    LET dt == ("lessonRevision" :> lessonRevisionOf(data))
                @@ Without(data, {"slides", "object", "previous"})
    IN  IF depth = 0 /\ "previous" \in DOMAIN data
        THEN ("previous" :> transformRevWrapped(data.previous, depth + 1)) @@ dt
        ELSE dt

\* function transformRev
RECURSIVE transformRev(_, _)
transformRev(data, depth) ==
    LET dt == ("lessonRevision" :> lessonRevisionOf(data))
                @@ Without(data, {"slides", "object", "previous"})
    IN  IF depth = 0 /\ "previous" \in DOMAIN data
        THEN ("previous" :> transformRev(data.previous, depth + 1).lessonRevision) @@ dt
        ELSE dt

\* the snapshot with every ancestor of its chain in place of the identifier
RECURSIVE ChainOf(_, _)
ChainOf(col, doc) ==
    IF BaselineOf(col, doc) = {} THEN Without(doc, {"previous"})
    ELSE ("previous" :> ChainOf(col, CHOOSE d \in BaselineOf(col, doc) : TRUE)) @@ doc

\* the number of versions from doc back to the first
RECURSIVE Versions(_, _)
Versions(col, doc) ==
    IF BaselineOf(col, doc) = {} THEN 1
    ELSE 1 + Versions(col, CHOOSE d \in BaselineOf(col, doc) : TRUE)

\* the views main writes to allSlides.json and test.json
SlideView(d) == transformSlide2(aggregateSlide(denormalizedSlideAudits, d), 0)
RevView(d) == transformRev(aggregateRev(denormalizedRevAudits, d), 0)
allSlidesView == [i \in DOMAIN denormalizedSlideAudits |-> SlideView(denormalizedSlideAudits[i])]
testView == [i \in DOMAIN denormalizedRevAudits |-> RevView(denormalizedRevAudits[i])]

\* the places of the snapshots written last; the stores only grow, so every
\* snapshot is one of these in the state its insertOne leaves, with the
\* ancestors it has from then on
LastWritten(col) == {i \in DOMAIN col : i = Len(col)}

\* the views of the snapshots written last, from what the aggregation hands
\* over and from the snapshot with its whole chain
LastViews ==
    {SlideView(denormalizedSlideAudits[i]) : i \in LastWritten(denormalizedSlideAudits)}
    \cup {RevView(denormalizedRevAudits[i]) : i \in LastWritten(denormalizedRevAudits)}
    \cup {transformSlide2(ChainOf(denormalizedSlideAudits, denormalizedSlideAudits[i]), 0) :
            i \in LastWritten(denormalizedSlideAudits)}
    \cup {transformRev(ChainOf(denormalizedRevAudits, denormalizedRevAudits[i]), 0) :
            i \in LastWritten(denormalizedRevAudits)}

\* C14: a view made with depth 0 has at most one ancestor level, whatever the
\* number of versions of the chain: the value under previous holds no previous.
C14_OneAncestorLevel ==
    \A v \in LastViews :
        "previous" \in DOMAIN v => "previous" \notin DOMAIN v.previous

\* a Slide and a Revision with three versions or more have views with an ancestor
C14_Witness ==
    /\ \E d \in Range(denormalizedSlideAudits) :
        /\ Versions(denormalizedSlideAudits, d) >= 3
        /\ "previous" \in DOMAIN transformSlide2(ChainOf(denormalizedSlideAudits, d), 0)
    /\ \E d \in Range(denormalizedRevAudits) :
        /\ Versions(denormalizedRevAudits, d) >= 3
        /\ "previous" \in DOMAIN transformRev(ChainOf(denormalizedRevAudits, d), 0)

\* the places of the snapshots that the snapshot at place i names as previous
AncestorOf(col, i) == {j \in DOMAIN col : col[j]._id = col[i].previous}

-----------------------------------------------------------------------------
(* Calls within one millisecond *)

\* new Date() has millisecond resolution: two calls may read the same time
TickTies == {0, 1}

NextTies ==
    \/ \E rev \in RevEvents, dt \in TickTies : InsertRev(rev, dt)
    \/ \E slide \in SlideEvents, dt \in TickTies : InsertSlide(slide, dt)
    \/ \E track \in TrackEvents, dt \in TickTies : InsertTrack(track, dt)

SpecTies == Init /\ [][NextTies]_vars

\* the snapshot of col inserted last among those with this domain id
LastInserted(col, id) ==
    {col[i] : i \in {j \in Matching(col, id) : \A k \in Matching(col, id) : k <= j}}

\* the snapshot colNext gained follows the snapshot of its domain id that was
\* inserted last into col, and none has a greater createdAt than that one
FollowsLastInserted(col, colNext) ==
    Len(colNext) = Len(col) + 1 =>
        LET new == Written(colNext)
        IN  \A last \in LastInserted(col, Get(new.object, "id")) :
                /\ new.previous = last._id
                /\ \A i \in Matching(col, Get(new.object, "id")) :
                        col[i]._createdAt <= last._createdAt

\* C13: the baseline of every fold is the snapshot of that domain id with the
\* greatest createdAt, and among snapshots with equal createdAt the one
\* inserted last: every snapshot written names it as previous.
C13_BaselineIsLastInserted ==
    [][ AllEventsValid' =>
        /\ FollowsLastInserted(denormalizedSlideAudits, denormalizedSlideAudits')
        /\ FollowsLastInserted(denormalizedRevAudits, denormalizedRevAudits')
      ]_vars

-----------------------------------------------------------------------------
(* Calls in flight at the same time *)

\* the events of the concurrent callers
ConcurrentRevEvents == {Event("created", [id |-> "R1", status |-> "draft"])}
ConcurrentSlideEvents ==
    {Event("created", [id |-> "S1", revisionId |-> "R1", position |-> 1, mediaUrl |-> "a"])}
ConcurrentTrackEvents ==
    { Event("created", [id |-> "T1", slideId |-> "S1", seconds |-> 6, questions |-> <<"q1">>]),
      Event("created", [id |-> "T2", slideId |-> "S1", seconds |-> 9, questions |-> <<>>]) }

\* the calls begun: those that have inserted their audit record and those
\* that have not
Begun ==
    Processed
        + Cardinality({c \in Callers : inflight[c].pc \in {"findSlide", "findRev", "insertAudit"}})

\* the first await of each function
FirstStep(op) ==
    CASE op = "insertRev" -> "insertAudit"
      [] op = "insertSlide" -> "findRev"
      [] op = "insertTrack" -> "findSlide"

\* insertDenormalizedSlide up to its insertOne: the findOne and the fold
resolveNextSlide(col, item, children, newId, t) ==
    { foldTrackIntoSlide(nextSlide(prev, item, newId, t), children) :
        prev \in findOneLatest(col, Get(item.object, "id")) }

\* insertDenormalized up to its insertOne: the findOne and the fold
resolveNextRev(col, item, children, newId, t) ==
    { foldChildren(nextRev(prev, item, newId, t), children) :
        prev \in findOneLatest(col, Get(item.object, "id")) }

\* an insertOne that puts the tracks of the snapshots inserted meanwhile
\* before those the fold added, under the previous the fold read
persistRebased(col, doc) ==
    IF "tracks" \in DOMAIN doc /\ Matching(col, Get(doc.object, "id")) # {}
    THEN LET last == col[CHOOSE i \in Matching(col, Get(doc.object, "id")) :
                            \A k \in Matching(col, Get(doc.object, "id")) : k <= i]
         IN  insertOne(col, ("tracks" :> (last.tracks \o
                    SelectSeq(doc.tracks, LAMBDA x : \A i \in DOMAIN last.tracks :
                                                        last.tracks[i]._id # x._id))) @@ doc)
    ELSE insertOne(col, doc)

\* the insertOne that ends insertDenormalizedSlide and insertDenormalized
persist(col, doc) == insertOne(col, doc)

\* a caller calls one of the three functions
Begin(c, op, e) ==
    /\ inflight[c].pc = "idle"
    /\ Begun < MaxEvents
    /\ inflight' = [inflight EXCEPT ![c] = [Idle EXCEPT !.op = op, !.event = e,
                                                        !.pc = FirstStep(op)]]
    /\ UNCHANGED <<revAudits, slideAudits, trackAudits, denormalizedSlideAudits,
                   denormalizedRevAudits, nextOid, now, outcome>>

\* await findOne on slideAudits or revAudits: the lookup of the parent
FindParent(c) ==
    LET call == inflight[c]
    IN  /\ \/ /\ call.pc = "findSlide"
              /\ \E slide \in findOneLatest(slideAudits, Get(call.event.object, "slideId")) :
                    inflight' = [inflight EXCEPT ![c].slide = slide, ![c].pc = "findRev"]
           \/ /\ call.pc = "findRev"
              /\ call.op = "insertSlide"
              /\ \E rev \in findOneLatest(revAudits, Get(call.event.object, "revisionId")) :
                    inflight' = [inflight EXCEPT ![c].rev = rev, ![c].pc = "insertAudit"]
           \/ /\ call.pc = "findRev"
              /\ call.op = "insertTrack"
              /\ inflight' = [inflight EXCEPT
                    ![c].rev = findOneFirst(revAudits,
                                    IF call.slide = <<>> THEN Undefined
                                    ELSE Get(call.slide[1].object, "revisionId")),
                    ![c].pc = "insertAudit"]
        /\ UNCHANGED <<revAudits, slideAudits, trackAudits, denormalizedSlideAudits,
                       denormalizedRevAudits, nextOid, now, outcome>>

\* await insertOne on the audit collection of the function
InsertAudit(c) ==
    LET call == inflight[c]
        inserted == [_id |-> nextOid] @@ [_createdAt |-> now] @@ call.event
    IN  /\ call.pc = "insertAudit"
        /\ revAudits' = IF call.op = "insertRev" THEN insertOne(revAudits, inserted)
                        ELSE revAudits
        /\ slideAudits' = IF call.op = "insertSlide" THEN insertOne(slideAudits, inserted)
                          ELSE slideAudits
        /\ trackAudits' = IF call.op = "insertTrack" THEN insertOne(trackAudits, inserted)
                          ELSE trackAudits
        /\ nextOid' = nextOid + 1
        /\ now' = now + 1
        /\ IF call.op = "insertTrack" /\ call.slide = <<>>
           THEN \* insertDenormalizedSlide reads item.object of null and throws
                /\ inflight' = [inflight EXCEPT ![c] = Idle]
                /\ outcome' = Call(call.op, call.event, "rejected")
           ELSE /\ inflight' = [inflight EXCEPT
                    ![c].inserted = IF call.op = "insertRev"
                                    THEN <<[_id |-> nextOid] @@ call.event>>
                                    ELSE <<inserted>>,
                    ![c].pc = IF call.op = "insertRev" THEN "resolveRev" ELSE "resolveSlide"]
                /\ UNCHANGED outcome
        /\ UNCHANGED <<denormalizedSlideAudits, denormalizedRevAudits>>

\* await findOne on a snapshot store, and the fold into what it returned
Resolve(c) ==
    LET call == inflight[c]
    IN  /\ \/ /\ call.pc = "resolveSlide"
              /\ \E doc \in resolveNextSlide(denormalizedSlideAudits,
                                IF call.op = "insertSlide" THEN call.inserted[1]
                                ELSE call.slide[1],
                                IF call.op = "insertSlide" THEN <<>> ELSE call.inserted,
                                nextOid, now) :
                    inflight' = [inflight EXCEPT ![c].doc = <<doc>>, ![c].pc = "persistSlide"]
           \/ /\ call.pc = "resolveRev"
              /\ \E doc \in resolveNextRev(denormalizedRevAudits,
                                IF call.op = "insertRev" THEN call.inserted[1]
                                ELSE call.rev[1],
                                CASE call.op = "insertRev" -> <<>>
                                  [] call.op = "insertSlide" ->
                                        <<[type |-> "slide", item |-> call.inserted[1]]>>
                                  [] call.op = "insertTrack" ->
                                        <<[type |-> "track", item |-> call.inserted[1]]>>,
                                nextOid, now) :
                    inflight' = [inflight EXCEPT ![c].doc = <<doc>>, ![c].pc = "persistRev"]
        /\ nextOid' = nextOid + 1
        /\ now' = now + 1
        /\ UNCHANGED <<revAudits, slideAudits, trackAudits, denormalizedSlideAudits,
                       denormalizedRevAudits, outcome>>

\* await insertOne on a snapshot store
Persist(c) ==
    LET call == inflight[c]
    IN  /\ \/ /\ call.pc = "persistSlide"
              /\ denormalizedSlideAudits' = persist(denormalizedSlideAudits, call.doc[1])
              /\ IF call.rev = <<>>
                 THEN \* insertDenormalized reads item.object of null and throws
                      /\ inflight' = [inflight EXCEPT ![c] = Idle]
                      /\ outcome' = Call(call.op, call.event, "rejected")
                 ELSE /\ inflight' = [inflight EXCEPT ![c].pc = "resolveRev"]
                      /\ UNCHANGED outcome
              /\ UNCHANGED denormalizedRevAudits
           \/ /\ call.pc = "persistRev"
              /\ denormalizedRevAudits' = persist(denormalizedRevAudits, call.doc[1])
              /\ inflight' = [inflight EXCEPT ![c] = Idle]
              /\ outcome' = Call(call.op, call.event, "resolved")
              /\ UNCHANGED denormalizedSlideAudits
        /\ UNCHANGED <<revAudits, slideAudits, trackAudits, nextOid, now>>

NextConcurrent ==
    \/ \E c \in Callers, rev \in ConcurrentRevEvents : Begin(c, "insertRev", rev)
    \/ \E c \in Callers, slide \in ConcurrentSlideEvents : Begin(c, "insertSlide", slide)
    \/ \E c \in Callers, track \in ConcurrentTrackEvents : Begin(c, "insertTrack", track)
    \/ \E c \in Callers : FindParent(c)
    \/ \E c \in Callers : InsertAudit(c)
    \/ \E c \in Callers : Resolve(c)
    \/ \E c \in Callers : Persist(c)

SpecConcurrent == Init /\ [][NextConcurrent]_vars

\* the audit records embedded in a snapshot: its tracks, or its slides and
\* their tracks
EmbeddedIn(d) ==
    IF "tracks" \in DOMAIN d
    THEN {d.tracks[i]._id : i \in DOMAIN d.tracks}
    ELSE {d.slides[i]._id : i \in DOMAIN d.slides}
            \cup UNION {{t._id : t \in Range(TracksOf(d.slides[i]))} : i \in DOMAIN d.slides}

\* what the fold that wrote d added to the baseline d names
AddedBy(col, d) == EmbeddedIn(d) \ UNION {EmbeddedIn(p) : p \in BaselineOf(col, d)}

\* two snapshots of one domain id that name the same snapshot as previous
SameBaseline(col, i, j) ==
    /\ i < j
    /\ SameId(col[i], col[j])
    /\ col[i].previous # Null
    /\ col[i].previous = col[j].previous

\* neither of two snapshots folded from the same baseline holds what the
\* other fold added
LostUpdates(col) ==
    \A i, j \in DOMAIN col :
        SameBaseline(col, i, j) =>
            /\ AddedBy(col, col[i]) \cap EmbeddedIn(col[j]) = {}
            /\ AddedBy(col, col[j]) \cap EmbeddedIn(col[i]) = {}

\* C12: resolve and persist are separate steps, so two calls in flight can
\* fold from the same baseline; whenever two snapshots of one domain id name
\* the same previous, each lacks the effect of the other's event, and so does
\* the latest of them.
C12_LostUpdate ==
    /\ LostUpdates(denormalizedSlideAudits)
    /\ LostUpdates(denormalizedRevAudits)

\* two Track events under one Slide have both resolved, their Slide snapshots
\* name the same previous, and the latest Slide snapshot lacks the first
\* one's Track; the same has happened to the Revision snapshots
C12_Witness ==
    /\ \A c \in Callers : inflight[c].pc = "idle"
    /\ Len(trackAudits) = 2
    /\ \E i, j \in DOMAIN denormalizedSlideAudits :
        /\ SameBaseline(denormalizedSlideAudits, i, j)
        /\ LatestIn(denormalizedSlideAudits, Get(denormalizedSlideAudits[j].object, "id"))
                = {denormalizedSlideAudits[j]}
        /\ AddedBy(denormalizedSlideAudits, denormalizedSlideAudits[i]) # {}
        /\ AddedBy(denormalizedSlideAudits, denormalizedSlideAudits[i])
                \cap EmbeddedIn(denormalizedSlideAudits[j]) = {}
    /\ \E i, j \in DOMAIN denormalizedRevAudits :
        /\ SameBaseline(denormalizedRevAudits, i, j)
        /\ LatestIn(denormalizedRevAudits, Get(denormalizedRevAudits[j].object, "id"))
                = {denormalizedRevAudits[j]}
        /\ AddedBy(denormalizedRevAudits, denormalizedRevAudits[i]) # {}
        /\ AddedBy(denormalizedRevAudits, denormalizedRevAudits[i])
                \cap EmbeddedIn(denormalizedRevAudits[j]) = {}

====
